---- MODULE Spec2Model ----
(***************************************************************************)
(* Market Sentinel: the risk aggregator (scoring/risk_engine.py) and the   *)
(* event-reaction calculator (analytics/historical_analytics.py).          *)
(*                                                                         *)
(* Number scales.  Points of the 0-100 score are integers, as in the code. *)
(* The running risk_assessment['risk_score'] (0.2, 0.15, ... steps) is     *)
(* kept in hundredths.  Similar-event scores are in hundredths (-0.3 is    *)
(* -30), horizon returns handed to the aggregator in basis points (-0.05   *)
(* is -500), annualized volatility in hundredths (0.5 is 50).              *)
(***************************************************************************)
EXTENDS Integers, Sequences, FiniteSets, TLC

VARIABLES
    pc,               \* position of score_event_risk: idle, step0..step3, done
    event,            \* the event mapping of the running call
    ai_analysis,      \* local of score_event_risk
    similar_result,   \* local of score_event_risk
    reaction_result,  \* local of score_event_risk
    risk_assessment,  \* local of score_event_risk
    invoked,          \* collaborators invoked by the running call, in order
    responses,        \* what each collaborator answered in the running call
    result,           \* value returned by the last finished call
    kept,             \* an earlier call (its inputs and result) the caller kept
    price_df,         \* the price table handed to compute_event_reaction
    rx_args,          \* arguments of the last compute_event_reaction call
    rx_result,        \* what that call returned
    load_call         \* the last load_price_data call: arguments, file, outcome

vars == <<pc, event, ai_analysis, similar_result, reaction_result,
          risk_assessment, invoked, responses, result, kept,
          price_df, rx_args, rx_result, load_call>>

risk_vars == <<pc, event, ai_analysis, similar_result, reaction_result,
               risk_assessment, invoked, responses, result, kept>>

reaction_vars == <<price_df, rx_args, rx_result>>

loader_vars == <<load_call>>

(***************************************************************************)
(* Python values                                                           *)
(***************************************************************************)
None == [t |-> "None"]

Str(s) == [t |-> "str", v |-> s]

EmptyDict == [k \in {} |-> 0]

Get(d, k, default) == IF k \in DOMAIN d THEN d[k] ELSE default

Truthy(x) == x.t = "str" /\ x.v # ""

Min(a, b) == IF a < b THEN a ELSE b

Max(a, b) == IF a > b THEN a ELSE b

RECURSIVE SumSeq(_)
SumSeq(s) == IF s = <<>> THEN 0 ELSE Head(s) + SumSeq(Tail(s))

RECURSIVE MinSeq(_)
MinSeq(s) == IF Len(s) = 1 THEN s[1] ELSE Min(Head(s), MinSeq(Tail(s)))

(***************************************************************************)
(* Event titles.  A title is a string; str.lower() and the substring test  *)
(* `keyword in title` are tabulated over the titles the model draws from.  *)
(***************************************************************************)
TitleB == "Apple announces major product recall"

TitleTesla == "TESLA Faces SEC Investigation"

TitleGood == "Strong rally after breakthrough"

TitleSevere == "Major crisis: massive recall, lawsuit and historic scandal"

TitlePlain == "Quarterly update"

Titles == {TitleB, TitleTesla, TitleGood, TitleSevere, TitlePlain}

Lower(s) ==
    CASE s = TitleB -> "apple announces major product recall"
      [] s = TitleTesla -> "tesla faces sec investigation"
      [] s = TitleGood -> "strong rally after breakthrough"
      [] s = TitleSevere -> "major crisis: massive recall, lawsuit and historic scandal"
      [] s = TitlePlain -> "quarterly update"
      [] s = "Negative" -> "negative"
      [] s = "NEGATIVE" -> "negative"
      [] s = "Positive" -> "positive"
      [] s = "Neutral" -> "neutral"
      [] OTHER -> s

\* the keywords (of any list) that occur as substrings of a lower-case title
Occurring(lt) ==
    CASE lt = "apple announces major product recall" -> {"major", "recall"}
      [] lt = "tesla faces sec investigation" -> {"faces", "investigation"}
      [] lt = "strong rally after breakthrough" -> {"strong", "rally", "breakthrough"}
      [] lt = "major crisis: massive recall, lawsuit and historic scandal" ->
             {"major", "crisis", "massive", "recall", "lawsuit", "historic", "scandal"}
      [] OTHER -> {}

Contains(lt, keyword) == keyword \in Occurring(lt)

negative_keywords ==
    <<"faces", "investigation", "probe", "recall", "lawsuit", "crisis", "scandal",
      "violation", "penalty", "ban", "shutdown", "failure", "breach">>

positive_keywords ==
    <<"rally", "surge", "strong", "positive", "gains", "success", "breakthrough">>

high_impact_keywords ==
    <<"major", "massive", "significant", "historic", "unprecedented",
      "revolutionary", "breakthrough", "crisis", "emergency">>

\* sum(1 for keyword in keywords if keyword in title)
KeywordCount(keywords, lt) ==
    Cardinality({i \in 1..Len(keywords) : Contains(lt, keywords[i])})

\* sum(1 for e in similar_events if e.get('sentiment_score', 0) < -0.3)
NegativeSimilar(similar_events) ==
    Cardinality({i \in 1..Len(similar_events) :
                    Get(similar_events[i], "sentiment_score", 0) < -30})

\* sum(1 for e in similar_events if e.get('impact_score', 0) > 0.7)
HighImpactSimilar(similar_events) ==
    Cardinality({i \in 1..Len(similar_events) :
                    Get(similar_events[i], "impact_score", 0) > 70})

(***************************************************************************)
(* The four factors                                                        *)
(***************************************************************************)
\* the floor at 0 applied before the similar events are added
analyze_sentiment_risk_floor_first(ev, sim) ==
    LET title == Lower(Get(ev, "title", ""))
        negative_count == KeywordCount(negative_keywords, title)
        positive_count == KeywordCount(positive_keywords, title)
        s1 == IF negative_count > 0 THEN Min(15, negative_count * 5) ELSE 0
        s2 == IF positive_count > 0 THEN s1 - Min(5, positive_count * 2) ELSE s1
        similar_events == Get(sim, "similar_events", <<>>)
        negative_similar == NegativeSimilar(similar_events)
        s3 == IF similar_events # <<>> /\ negative_similar > 0
              THEN Max(0, s2) + Min(15, negative_similar * 3) ELSE s2
    IN  Max(0, s3)

analyze_sentiment_risk(ev, sim) ==
    LET title == Lower(Get(ev, "title", ""))
        negative_count == KeywordCount(negative_keywords, title)
        positive_count == KeywordCount(positive_keywords, title)
        s1 == IF negative_count > 0 THEN Min(15, negative_count * 5) ELSE 0
        s2 == IF positive_count > 0 THEN s1 - Min(5, positive_count * 2) ELSE s1
        similar_events == Get(sim, "similar_events", <<>>)
        negative_similar == NegativeSimilar(similar_events)
        s3 == IF similar_events # <<>> /\ negative_similar > 0
              THEN s2 + Min(15, negative_similar * 3) ELSE s2
    IN  Max(0, s3)

\* the similar events' points without their cap of 15
analyze_impact_risk_uncapped(ev, sim) ==
    LET title == Lower(Get(ev, "title", ""))
        impact_count == KeywordCount(high_impact_keywords, title)
        s1 == IF impact_count > 0 THEN Min(10, impact_count * 3) ELSE 0
        similar_events == Get(sim, "similar_events", <<>>)
        high_impact_similar == HighImpactSimilar(similar_events)
        s2 == IF similar_events # <<>> /\ high_impact_similar > 0
              THEN s1 + high_impact_similar * 4 ELSE s1
    IN  Max(0, s2)

analyze_impact_risk(ev, sim) ==
    LET title == Lower(Get(ev, "title", ""))
        impact_count == KeywordCount(high_impact_keywords, title)
        s1 == IF impact_count > 0 THEN Min(10, impact_count * 3) ELSE 0
        similar_events == Get(sim, "similar_events", <<>>)
        high_impact_similar == HighImpactSimilar(similar_events)
        s2 == IF similar_events # <<>> /\ high_impact_similar > 0
              THEN s1 + Min(15, high_impact_similar * 4) ELSE s1
    IN  Max(0, s2)

\* 20 points instead of 2 for each risk factor
analyze_similar_events_risk_x20(ra) ==
    LET risk_factors == Get(ra, "risk_factors", <<>>)
        similar_events == Get(ra, "similar_events", <<>>)
        s1 == Len(risk_factors) * 20
        similar_count == Len(similar_events)
        s2 == IF similar_count > 3 THEN s1 + 10
              ELSE IF similar_count > 1 THEN s1 + 5 ELSE s1
    IN  Min(20, s2)

analyze_similar_events_risk(ra) ==
    LET risk_factors == Get(ra, "risk_factors", <<>>)
        similar_events == Get(ra, "similar_events", <<>>)
        s1 == Len(risk_factors) * 2
        similar_count == Len(similar_events)
        s2 == IF similar_count > 3 THEN s1 + 10
              ELSE IF similar_count > 1 THEN s1 + 5 ELSE s1
    IN  Min(20, s2)

\* the non-None N-day returns of a reaction result, in the order 1, 3, 5
ReturnsOf(rr) ==
    LET keys == <<"1_day_return", "3_day_return", "5_day_return">>
        F[i \in 0..3] ==
            IF i = 0 THEN <<>>
            ELSE IF keys[i] \in DOMAIN rr /\ rr[keys[i]].t # "None"
                 THEN Append(F[i - 1], rr[keys[i]].v)
                 ELSE F[i - 1]
    IN  F[3]

\* the points without the final cap of 25
analyze_price_reaction_risk_uncapped(rr) ==
    IF "error" \in DOMAIN rr THEN 0
    ELSE
      LET returns_to_check == ReturnsOf(rr)
          n == Len(returns_to_check)
          s1 == IF n = 0 THEN 0
                ELSE IF SumSeq(returns_to_check) < (-500) * n THEN 15
                ELSE IF SumSeq(returns_to_check) < (-200) * n THEN 8
                ELSE 0
          s2 == IF n > 0 /\ MinSeq(returns_to_check) < -1000 THEN s1 + 10 ELSE s1
          vol_data == Get(rr, "volatility_20_day", EmptyDict)
          s3 == IF "annualized_volatility" \in DOMAIN vol_data
                THEN (IF vol_data["annualized_volatility"] > 50 THEN s2 + 10
                      ELSE IF vol_data["annualized_volatility"] > 30 THEN s2 + 5
                      ELSE s2)
                ELSE s2
      IN  s3

\* the average taken over the three horizons instead of the available ones
analyze_price_reaction_risk_avg3(rr) ==
    IF "error" \in DOMAIN rr THEN 0
    ELSE
      LET returns_to_check == ReturnsOf(rr)
          n == Len(returns_to_check)
          s1 == IF n = 0 THEN 0
                ELSE IF SumSeq(returns_to_check) < (-500) * 3 THEN 15
                ELSE IF SumSeq(returns_to_check) < (-200) * 3 THEN 8
                ELSE 0
          s2 == IF n > 0 /\ MinSeq(returns_to_check) < -1000 THEN s1 + 10 ELSE s1
          vol_data == Get(rr, "volatility_20_day", EmptyDict)
          s3 == IF "annualized_volatility" \in DOMAIN vol_data
                THEN (IF vol_data["annualized_volatility"] > 50 THEN s2 + 10
                      ELSE IF vol_data["annualized_volatility"] > 30 THEN s2 + 5
                      ELSE s2)
                ELSE s2
      IN  Min(25, s3)

analyze_price_reaction_risk(rr) ==
    IF "error" \in DOMAIN rr THEN 0
    ELSE
      LET returns_to_check == ReturnsOf(rr)
          n == Len(returns_to_check)
          \* avg_return = sum/len; avg_return < c is sum < c * len
          s1 == IF n = 0 THEN 0
                ELSE IF SumSeq(returns_to_check) < (-500) * n THEN 15
                ELSE IF SumSeq(returns_to_check) < (-200) * n THEN 8
                ELSE 0
          s2 == IF n > 0 /\ MinSeq(returns_to_check) < -1000 THEN s1 + 10 ELSE s1
          vol_data == Get(rr, "volatility_20_day", EmptyDict)
          s3 == IF "annualized_volatility" \in DOMAIN vol_data
                THEN (IF vol_data["annualized_volatility"] > 50 THEN s2 + 10
                      ELSE IF vol_data["annualized_volatility"] > 30 THEN s2 + 5
                      ELSE s2)
                ELSE s2
      IN  Min(25, s3)

\* strict thresholds
RiskLevelOf_strict(final_score) ==
    IF final_score > 70 THEN "High"
    ELSE IF final_score > 40 THEN "Medium"
    ELSE "Low"

\* lines 267-273
RiskLevelOf(final_score) ==
    IF final_score >= 70 THEN "High"
    ELSE IF final_score >= 40 THEN "Medium"
    ELSE "Low"

\* every factor listed, the zero ones too
compute_comprehensive_risk_score_all(ev, ra, sim, rr) ==
    LET sentiment_score == analyze_sentiment_risk(ev, sim)
        impact_score == analyze_impact_risk(ev, sim)
        similar_score == analyze_similar_events_risk(ra)
        price_score == analyze_price_reaction_risk(rr)
        base_score == sentiment_score + impact_score + similar_score + price_score
        final_score == Max(0, Min(100, base_score))
        risk_level == RiskLevelOf(final_score)
    IN  [final_score |-> final_score,
         risk_level |-> risk_level,
         reasoning |->
            [score |-> final_score, level |-> risk_level,
             parts |-> <<[factor |-> "Sentiment analysis", points |-> sentiment_score],
                         [factor |-> "Impact analysis", points |-> impact_score],
                         [factor |-> "Similar events analysis", points |-> similar_score],
                         [factor |-> "Price reaction analysis", points |-> price_score]>>]]

\* the reasoning text: the quoted score and level, and the '; '-joined parts
compute_comprehensive_risk_score(ev, ra, sim, rr) ==
    LET sentiment_score == analyze_sentiment_risk(ev, sim)
        impact_score == analyze_impact_risk(ev, sim)
        similar_score == analyze_similar_events_risk(ra)
        price_score == analyze_price_reaction_risk(rr)
        base_score == sentiment_score + impact_score + similar_score + price_score
        p1 == IF sentiment_score > 0
              THEN <<[factor |-> "Sentiment analysis", points |-> sentiment_score]>>
              ELSE <<>>
        p2 == IF impact_score > 0
              THEN Append(p1, [factor |-> "Impact analysis", points |-> impact_score])
              ELSE p1
        p3 == IF similar_score > 0
              THEN Append(p2, [factor |-> "Similar events analysis", points |-> similar_score])
              ELSE p2
        p4 == IF price_score > 0
              THEN Append(p3, [factor |-> "Price reaction analysis", points |-> price_score])
              ELSE p3
        final_score == Max(0, Min(100, base_score))
        risk_level == RiskLevelOf(final_score)
    IN  [final_score |-> final_score,
         risk_level |-> risk_level,
         reasoning |-> [score |-> final_score, level |-> risk_level, parts |-> p4]]

generate_risk_recommendations(risk_level, risk_score) ==
    IF risk_level = "High" THEN
        <<"[HIGH RISK] IMMEDIATE ATTENTION REQUIRED",
          "Consider immediate position adjustments or hedging",
          "Monitor news feeds and social media closely",
          "Prepare contingency plans for further developments",
          "Consult with risk management team immediately">>
    ELSE IF risk_level = "Medium" THEN
        <<"[MEDIUM RISK] INCREASED MONITORING RECOMMENDED",
          "Review and potentially adjust position sizing",
          "Stay informed about related news developments",
          "Consider setting additional stop-loss levels",
          "Monitor competitor reactions and market sentiment">>
    ELSE
        <<"[LOW RISK] NORMAL MONITORING PROCEDURES",
          "Continue standard market monitoring",
          "Note event for regular portfolio review",
          "No immediate action required",
          "Maintain existing risk management protocols">>

\* the matches of a keyword list in a title, in list order, tagged with `tag`
TaggedMatches(keywords, lt, tag) ==
    LET F[i \in 0..Len(keywords)] ==
            IF i = 0 THEN <<>>
            ELSE IF Contains(lt, keywords[i])
                 THEN Append(F[i - 1], <<tag, keywords[i]>>)
                 ELSE F[i - 1]
    IN  F[Len(keywords)]

extract_sentiment_keywords(title) ==
    LET title_lower == Lower(title)
    IN  TaggedMatches(negative_keywords, title_lower, "negative")
            \o TaggedMatches(positive_keywords, title_lower, "positive")

extract_sentiment_impact_analysis(ev, sim) ==
    [event_title |-> Get(ev, "title", ""),
     sentiment_keywords_found |-> extract_sentiment_keywords(Get(ev, "title", "")),
     similar_events_count |-> Len(Get(sim, "similar_events", <<>>)),
     negative_similar_events |-> NegativeSimilar(Get(sim, "similar_events", <<>>)),
     high_impact_similar_events |-> HighImpactSimilar(Get(sim, "similar_events", <<>>))]

extract_price_reaction_metrics(rr) ==
    IF "error" \in DOMAIN rr THEN [error |-> rr["error"]]
    ELSE
      LET entry(d) ==
              IF (d \o "_day_return") \in DOMAIN rr
              THEN (d \o "_day") :>
                     [return |-> rr[d \o "_day_return"],
                      price |-> Get(rr, d \o "_day_price", None),
                      date |-> Get(rr, d \o "_day_date", None)]
              ELSE EmptyDict
      IN  [event_price |-> Get(rr, "event_price", None),
           returns |-> entry("1") @@ entry("3") @@ entry("5"),
           volatility |-> Get(rr, "volatility_20_day", EmptyDict)]

(***************************************************************************)
(* What the caller and the collaborators can supply                        *)
(***************************************************************************)
Absent == "<absent>"

Field(k, v) == IF v = Absent THEN EmptyDict ELSE k :> v

TitleOpts == Titles \cup {Absent, ""}

TickerOpts == {Absent, "AAPL"}

DateOpts == {Absent, "2024-01-17"}

Events ==
    {Field("title", t) @@ Field("ticker", k) @@ Field("date", d) :
        t \in TitleOpts, k \in TickerOpts, d \in DateOpts}

\* analyze_event's answer when the model server is unreachable
FailClosedAnalysis ==
    [event_type |-> None, sentiment |-> None, ticker |-> None, sector |-> None,
     summary |-> Str("Error analyzing event: connection refused")]

AISummary == "Recall may hurt sales"

NegativeAnalysis ==
    [sentiment |-> Str("Negative"), ticker |-> Str("AAPL"), summary |-> Str(AISummary)]

Analyses ==
    {EmptyDict,
     FailClosedAnalysis,
     NegativeAnalysis,
     [sentiment |-> Str("NEGATIVE"), ticker |-> None, summary |-> Str("")],
     [sentiment |-> Str("Positive"), ticker |-> Str("AAPL"), summary |-> Str(AISummary)],
     [sentiment |-> Str("Neutral"), ticker |-> None, summary |-> Str(AISummary)],
     [summary |-> Str(AISummary)]}

ClassifierResponses ==
    {[raises |-> TRUE]} \cup {[raises |-> FALSE, analysis |-> a] : a \in Analyses}

TopK == 5

\* n similar events; the first neg are negative, the first hi are high impact,
\* the others sit exactly on the thresholds -0.3 and 0.7
SimilarList(n, neg, hi) ==
    [i \in 1..n |->
        [rank |-> i,
         sentiment_score |-> IF i <= neg THEN -50 ELSE -30,
         impact_score |-> IF i <= hi THEN 80 ELSE 70]]

SimilarResponses ==
    {[status |-> "error", error |-> "LanceDB query failed"]}
    \cup UNION {{[status |-> "success",
                   similar_events |-> SimilarList(n, neg, hi),
                   total_retrieved |-> n] : neg \in {0, n}, hi \in {0, n}} :
                 n \in 0..TopK}

ReturnProfiles ==
    {<<None, None, None>>,
     <<[t |-> "num", v |-> 100], [t |-> "num", v |-> 200], None>>,
     <<[t |-> "num", v |-> -300], [t |-> "num", v |-> -300], [t |-> "num", v |-> -300]>>,
     <<[t |-> "num", v |-> -500], [t |-> "num", v |-> -500], [t |-> "num", v |-> -500]>>,
     <<[t |-> "num", v |-> -600], [t |-> "num", v |-> -600], [t |-> "num", v |-> -600]>>,
     <<[t |-> "num", v |-> -1500], None, None>>,
     <<[t |-> "num", v |-> -1100], [t |-> "num", v |-> 500], None>>}

VolatilityBlocks ==
    {[error |-> "Insufficient data for volatility calculation"]}
    \cup {[daily_volatility |-> a \div 16, annualized_volatility |-> a, sample_size |-> 12] :
            a \in {30, 50, 60}}

ReactionResults ==
    {[error |-> "No data found for ticker"],
     [error |-> "Insufficient data for analysis"]}
    \cup {[ticker |-> "AAPL", event_date |-> "2024-01-17",
           event_date_found |-> "2024-01-17", event_price |-> 148,
           volatility_20_day |-> vb]
          @@ ("1_day_return" :> rp[1]) @@ ("3_day_return" :> rp[2])
          @@ ("5_day_return" :> rp[3]) :
            rp \in ReturnProfiles, vb \in VolatilityBlocks}

\* load_price_data raises, or returns a table on which compute_event_reaction
\* returns one of ReactionResults
PriceResponses ==
    {[load |-> "raise"]} \cup {[load |-> "ok", reaction |-> r] : r \in ReactionResults}

NotInvoked == [invoked |-> FALSE]

NoResult == [status |-> "none"]

NoResponses ==
    [classifier |-> NotInvoked, similarity |-> NotInvoked, price |-> NotInvoked]

NothingKept == [event |-> EmptyDict, responses |-> NoResponses, result |-> NoResult]

HasTitle(ev) == "title" \in DOMAIN ev /\ ev["title"] # ""

HasTickerAndDate(ev) ==
    /\ "ticker" \in DOMAIN ev /\ "date" \in DOMAIN ev
    /\ ev["ticker"] # "" /\ ev["date"] # ""

Factor(msg, arg) == [msg |-> msg, arg |-> arg]

AddFactor(ra, msg, arg) ==
    [ra EXCEPT !.risk_factors = Append(@, Factor(msg, arg))]

(***************************************************************************)
(* score_event_risk, one action per stretch between collaborator calls     *)
(***************************************************************************)
InitRisk ==
    /\ pc = "idle"
    /\ event = EmptyDict
    /\ ai_analysis = [status |-> "error", analysis |-> EmptyDict]
    /\ similar_result = [status |-> "error", similar_events |-> <<>>]
    /\ reaction_result = [error |-> "No market reaction analysis performed"]
    /\ risk_assessment = EmptyDict
    /\ invoked = <<>>
    /\ responses = NoResponses
    /\ result = NoResult
    /\ kept = NothingKept

\* The caller may keep a finished call (inputs and assessment) while it makes
\* further calls.  To bound the model it keeps only calls on two events with
\* a negative or fail-closed classifier answer, a failed or full similarity
\* answer and, when prices are consulted, the worst reaction.
WorstReaction ==
    [ticker |-> "AAPL", event_date |-> "2024-01-17",
     event_date_found |-> "2024-01-17", event_price |-> 148,
     volatility_20_day |->
        [daily_volatility |-> 60 \div 16, annualized_volatility |-> 60, sample_size |-> 12]]
    @@ ("1_day_return" :> [t |-> "num", v |-> -1500])
    @@ ("3_day_return" :> None) @@ ("5_day_return" :> None)

Retainable(ev, resp) ==
    /\ ev \in {[title |-> TitleSevere, ticker |-> "AAPL", date |-> "2024-01-17"],
                [title |-> TitleB]}
    /\ resp.classifier \in {[raises |-> FALSE, analysis |-> NegativeAnalysis],
                            [raises |-> FALSE, analysis |-> FailClosedAnalysis]}
    /\ resp.similarity \in {[status |-> "error", error |-> "LanceDB query failed"],
                            [status |-> "success",
                             similar_events |-> SimilarList(TopK, TopK, TopK),
                             total_retrieved |-> TopK]}
    /\ resp.price \in {NotInvoked, [load |-> "ok", reaction |-> WorstReaction]}

\* lines 31-40: risk_assessment as first built
Skeleton(ev) ==
    [event_title |-> Get(ev, "title", ""),
     event_ticker |-> Get(ev, "ticker", ""),
     event_date |-> Get(ev, "date", ""),
     risk_score |-> 0,
     risk_factors |-> <<>>,
     similar_events |-> <<>>,
     market_reaction |-> EmptyDict,
     recommendations |-> <<>>]

\* entry: the result variables and the risk_assessment skeleton; with keep
\* the caller keeps the call that just finished
Call(ev, keep) ==
    /\ pc \in {"idle", "done"}
    /\ keep => (pc = "done" /\ Retainable(event, responses))
    /\ pc' = "step0"
    /\ event' = ev
    /\ similar_result' = [status |-> "error", similar_events |-> <<>>]
    /\ reaction_result' = [error |-> "No market reaction analysis performed"]
    /\ risk_assessment' = Skeleton(ev)
    /\ ai_analysis' = [status |-> "error", analysis |-> EmptyDict]
    /\ invoked' = <<>>
    /\ responses' = NoResponses
    /\ result' = NoResult
    /\ kept' = IF keep
                THEN [event |-> event, responses |-> responses, result |-> result]
                ELSE kept
    /\ UNCHANGED <<reaction_vars, loader_vars>>

\* lines 47-57: ai_analysis after the classifier answered r
ClassifierOutcome(r) ==
    IF r.raises
    THEN [status |-> "error", error |-> "classifier raised", analysis |-> EmptyDict]
    ELSE [status |-> "success", analysis |-> r.analysis]

\* the classifier asked a second time after it raised
Classify_retry ==
    /\ IF HasTitle(event)
       THEN \E r \in ClassifierResponses :
              /\ ai_analysis' = ClassifierOutcome(r)
              /\ invoked' = IF r.raises
                            THEN invoked \o <<"analyze_event", "analyze_event">>
                            ELSE Append(invoked, "analyze_event")
              /\ responses' = [responses EXCEPT !.classifier = r]
       ELSE UNCHANGED <<ai_analysis, invoked, responses>>
    /\ UNCHANGED <<event, similar_result, reaction_result, risk_assessment, result, kept, reaction_vars, loader_vars>>

\* lines 44-58: the classifier is asked when the event has a title
Classify ==
    /\ IF HasTitle(event)
       THEN \E r \in ClassifierResponses :
              /\ ai_analysis' = ClassifierOutcome(r)
              /\ invoked' = Append(invoked, "analyze_event")
              /\ responses' = [responses EXCEPT !.classifier = r]
       ELSE UNCHANGED <<ai_analysis, invoked, responses>>
    /\ UNCHANGED <<event, similar_result, reaction_result, risk_assessment, result, kept, reaction_vars, loader_vars>>

\* Step 0: the classifier
Step0 ==
    /\ pc = "step0"
    /\ pc' = "step1"
    /\ Classify

\* lines 69-97: what Step 1 does with the similarity answer
AfterSimilar(ra, sr) ==
    IF Get(sr, "status", "") = "success"
    THEN LET sims == Get(sr, "similar_events", <<>>)
             negative_events == NegativeSimilar(sims)
             high_impact_events == HighImpactSimilar(sims)
             ra1 == [ra EXCEPT !.similar_events = sims]
             ra2 == IF negative_events > 0
                    THEN [AddFactor(ra1, "Found similar negative events", negative_events)
                            EXCEPT !.risk_score = @ + negative_events * 20]
                    ELSE ra1
             ra3 == IF high_impact_events > 0
                    THEN [AddFactor(ra2, "Found similar high-impact events", high_impact_events)
                            EXCEPT !.risk_score = @ + high_impact_events * 15]
                    ELSE ra2
         IN  ra3
    ELSE AddFactor(ra, "Could not retrieve similar events", 0)

\* lines 61-99: the similarity lookup is made when the event has a title
Retrieve ==
    /\ IF HasTitle(event)
       THEN \E sr \in SimilarResponses :
              /\ similar_result' = sr
              /\ risk_assessment' = AfterSimilar(risk_assessment, sr)
              /\ invoked' = Append(invoked, "retrieve_similar_events")
              /\ responses' = [responses EXCEPT !.similarity = sr]
       ELSE /\ risk_assessment' =
                 AddFactor(risk_assessment,
                           "No event title provided for similarity analysis", 0)
            /\ UNCHANGED <<similar_result, invoked, responses>>
    /\ UNCHANGED <<event, ai_analysis, reaction_result, result, kept, reaction_vars, loader_vars>>

\* Step 1: the similarity lookup
Step1 ==
    /\ pc = "step1"
    /\ pc' = "step2"
    /\ Retrieve

\* lines 116-156: what Step 2 does with the reaction result
AfterReaction(ra, rr) ==
    IF "error" \notin DOMAIN rr
    THEN LET returns_to_analyze == ReturnsOf(rr)
             n == Len(returns_to_analyze)
             ra1 == [ra EXCEPT !.market_reaction = rr]
             ra2 == IF n = 0 THEN ra1
                    ELSE IF SumSeq(returns_to_analyze) < (-500) * n
                    THEN [AddFactor(ra1, "Severe negative market reaction", 0)
                            EXCEPT !.risk_score = @ + 30]
                    ELSE IF SumSeq(returns_to_analyze) < (-200) * n
                    THEN [AddFactor(ra1, "Moderate negative market reaction", 0)
                            EXCEPT !.risk_score = @ + 15]
                    ELSE ra1
             ra3 == IF n > 0 /\ MinSeq(returns_to_analyze) < -1000
                    THEN [AddFactor(ra2, "Extreme single-day drop", 0)
                            EXCEPT !.risk_score = @ + 25]
                    ELSE ra2
             vol_data == Get(rr, "volatility_20_day", EmptyDict)
             ra4 == IF "annualized_volatility" \in DOMAIN vol_data
                    THEN (IF vol_data["annualized_volatility"] > 50
                          THEN [AddFactor(ra3, "Very high market volatility", 0)
                                  EXCEPT !.risk_score = @ + 20]
                          ELSE IF vol_data["annualized_volatility"] > 30
                          THEN [AddFactor(ra3, "High market volatility", 0)
                                  EXCEPT !.risk_score = @ + 10]
                          ELSE ra3)
                    ELSE ra3
         IN  ra4
    ELSE AddFactor(ra, "Market reaction analysis failed", 0)

\* lines 102-162: prices are loaded when the event has a ticker and a date
React ==
    /\ IF HasTickerAndDate(event)
       THEN \E pr \in PriceResponses :
              /\ responses' = [responses EXCEPT !.price = pr]
              /\ IF pr.load = "raise"
                 THEN /\ invoked' = Append(invoked, "load_price_data")
                      /\ risk_assessment' =
                           AddFactor(risk_assessment, "Error computing market reaction", 0)
                      /\ UNCHANGED reaction_result
                 ELSE /\ invoked' = invoked \o <<"load_price_data", "compute_event_reaction">>
                      /\ reaction_result' = pr.reaction
                      /\ risk_assessment' = AfterReaction(risk_assessment, pr.reaction)
       ELSE /\ risk_assessment' =
                 AddFactor(risk_assessment,
                           "Missing ticker or date for market reaction analysis", 0)
            /\ UNCHANGED <<reaction_result, invoked, responses>>
    /\ UNCHANGED <<event, ai_analysis, similar_result, result, kept, reaction_vars, loader_vars>>

\* Step 2: the price-series load and the reaction computation
Step2 ==
    /\ pc = "step2"
    /\ pc' = "step3"
    /\ React

\* Step 2.5 (lines 164-186); raised is the AttributeError of None.lower()
IntegrateAI(ra, ai) ==
    IF Get(ai, "status", "") = "success" /\ DOMAIN Get(ai, "analysis", EmptyDict) # {}
    THEN LET mistral_data == ai["analysis"]
             sentiment == Get(mistral_data, "sentiment", Str(""))
         IN  IF sentiment.t # "str"
             THEN [raised |-> TRUE, ra |-> ra]
             ELSE
               LET mistral_sentiment == Lower(sentiment.v)
                   ra1 == IF mistral_sentiment = "negative"
                          THEN AddFactor([ra EXCEPT !.risk_score = @ + 20],
                                         "AI-detected negative sentiment", 0)
                          ELSE IF mistral_sentiment = "positive"
                          THEN AddFactor([ra EXCEPT !.risk_score = @ - 10],
                                         "AI-detected positive sentiment", 0)
                          ELSE ra
                   ra2 == IF ra1.event_ticker = "" /\ Truthy(Get(mistral_data, "ticker", None))
                          THEN [ra1 EXCEPT !.event_ticker = mistral_data["ticker"].v]
                          ELSE ra1
                   ra3 == IF Truthy(Get(mistral_data, "summary", None))
                          THEN [ra2 EXCEPT !.recommendations =
                                   Append(@, "AI Analysis: " \o mistral_data["summary"].v)]
                          ELSE ra2
               IN  [raised |-> FALSE, ra |-> ra3]
    ELSE [raised |-> FALSE, ra |-> ra]

\* the timestamp read from a clock (datetime.now()) that has moved on once
\* the caller holds an earlier assessment
CompileResult_now(ev, ra, ai, sim, rr) ==
    LET scored == compute_comprehensive_risk_score(ev, ra, sim, rr)
        recommendations ==
            generate_risk_recommendations(scored.risk_level, scored.final_score)
    IN  [risk_score |-> scored.final_score,
         risk_level |-> scored.risk_level,
         reasoning |-> scored.reasoning,
         raw_metrics |->
            [event_title |-> Get(ev, "title", ""),
             event_ticker |-> Get(ev, "ticker", ""),
             event_date |-> Get(ev, "date", ""),
             similar_events_count |-> Len(Get(ra, "similar_events", <<>>)),
             market_reaction |-> Get(ra, "market_reaction", EmptyDict),
             sentiment_impact_analysis |-> extract_sentiment_impact_analysis(ev, sim),
             ai_event_analysis |-> Get(ai, "analysis", EmptyDict),
             price_reaction_metrics |-> extract_price_reaction_metrics(rr)],
         recommendations |-> recommendations,
         assessment_timestamp |->
            IF kept = NothingKept THEN "2024-01-17T16:23:17Z" ELSE "2024-01-17T16:23:18Z",
         status |-> "success"]

\* the generated recommendations appended to those already collected
CompileResult_extend(ev, ra, ai, sim, rr) ==
    LET scored == compute_comprehensive_risk_score(ev, ra, sim, rr)
        recommendations ==
            Get(ra, "recommendations", <<>>)
                \o generate_risk_recommendations(scored.risk_level, scored.final_score)
    IN  [risk_score |-> scored.final_score,
         risk_level |-> scored.risk_level,
         reasoning |-> scored.reasoning,
         raw_metrics |->
            [event_title |-> Get(ev, "title", ""),
             event_ticker |-> Get(ev, "ticker", ""),
             event_date |-> Get(ev, "date", ""),
             similar_events_count |-> Len(Get(ra, "similar_events", <<>>)),
             market_reaction |-> Get(ra, "market_reaction", EmptyDict),
             sentiment_impact_analysis |-> extract_sentiment_impact_analysis(ev, sim),
             ai_event_analysis |-> Get(ai, "analysis", EmptyDict),
             price_reaction_metrics |-> extract_price_reaction_metrics(rr)],
         recommendations |-> recommendations,
         assessment_timestamp |-> "2024-01-17T16:23:17Z",
         status |-> "success"]

\* the collected risk factors handed out with the raw metrics
CompileResult_factors(ev, ra, ai, sim, rr) ==
    LET scored == compute_comprehensive_risk_score(ev, ra, sim, rr)
        recommendations ==
            generate_risk_recommendations(scored.risk_level, scored.final_score)
    IN  [risk_score |-> scored.final_score,
         risk_level |-> scored.risk_level,
         reasoning |-> scored.reasoning,
         raw_metrics |->
            [event_title |-> Get(ev, "title", ""),
             event_ticker |-> Get(ev, "ticker", ""),
             event_date |-> Get(ev, "date", ""),
             similar_events_count |-> Len(Get(ra, "similar_events", <<>>)),
             market_reaction |-> Get(ra, "market_reaction", EmptyDict),
             risk_factors |-> Get(ra, "risk_factors", <<>>),
             sentiment_impact_analysis |-> extract_sentiment_impact_analysis(ev, sim),
             ai_event_analysis |-> Get(ai, "analysis", EmptyDict),
             price_reaction_metrics |-> extract_price_reaction_metrics(rr)],
         recommendations |-> recommendations,
         assessment_timestamp |-> "2024-01-17T16:23:17Z",
         status |-> "success"]

\* Steps 3-5 (lines 188-214): the returned mapping
CompileResult(ev, ra, ai, sim, rr) ==
    LET scored == compute_comprehensive_risk_score(ev, ra, sim, rr)
        recommendations ==
            generate_risk_recommendations(scored.risk_level, scored.final_score)
    IN  [risk_score |-> scored.final_score,
         risk_level |-> scored.risk_level,
         reasoning |-> scored.reasoning,
         raw_metrics |->
            [event_title |-> Get(ev, "title", ""),
             event_ticker |-> Get(ev, "ticker", ""),
             event_date |-> Get(ev, "date", ""),
             similar_events_count |-> Len(Get(ra, "similar_events", <<>>)),
             market_reaction |-> Get(ra, "market_reaction", EmptyDict),
             sentiment_impact_analysis |-> extract_sentiment_impact_analysis(ev, sim),
             ai_event_analysis |-> Get(ai, "analysis", EmptyDict),
             price_reaction_metrics |-> extract_price_reaction_metrics(rr)],
         recommendations |-> recommendations,
         assessment_timestamp |-> "2024-01-17T16:23:17Z",
         status |-> "success"]

\* lines 219-227: the top-level except
ErrorResult(ev, message) ==
    [status |-> "error",
     error |-> message,
     event_title |-> Get(ev, "title", ""),
     risk_score |-> 0,
     risk_level |-> "UNKNOWN"]

\* lines 164-227: the classifier's judgment is folded in and the result built
Aggregate ==
    /\ LET ia == IntegrateAI(risk_assessment, ai_analysis)
       IN  /\ risk_assessment' = ia.ra
           /\ result' =
                IF ia.raised
                THEN ErrorResult(event, "'NoneType' object has no attribute 'lower'")
                ELSE CompileResult(event, ia.ra, ai_analysis, similar_result, reaction_result)
    /\ UNCHANGED <<event, ai_analysis, similar_result, reaction_result,
                   invoked, responses, kept, reaction_vars, loader_vars>>

\* Steps 2.5 to 5 and the return
Step3 ==
    /\ pc = "step3"
    /\ pc' = "done"
    /\ Aggregate

\* score_event_risk as a function of the event and of what the collaborators
\* answer: the steps above in the order of the code
score_event_risk(ev, resp) ==
    LET titled == HasTitle(ev)
        priced == HasTickerAndDate(ev)
        ai == IF titled THEN ClassifierOutcome(resp.classifier)
              ELSE [status |-> "error", analysis |-> EmptyDict]
        sim == IF titled THEN resp.similarity
               ELSE [status |-> "error", similar_events |-> <<>>]
        ra1 == IF titled THEN AfterSimilar(Skeleton(ev), sim)
               ELSE AddFactor(Skeleton(ev),
                              "No event title provided for similarity analysis", 0)
        rr == IF priced /\ resp.price.load = "ok" THEN resp.price.reaction
              ELSE [error |-> "No market reaction analysis performed"]
        ra2 == IF ~priced
               THEN AddFactor(ra1, "Missing ticker or date for market reaction analysis", 0)
               ELSE IF resp.price.load = "raise"
               THEN AddFactor(ra1, "Error computing market reaction", 0)
               ELSE AfterReaction(ra1, rr)
        ia == IntegrateAI(ra2, ai)
    IN  IF ia.raised
        THEN ErrorResult(ev, "'NoneType' object has no attribute 'lower'")
        ELSE CompileResult(ev, ia.ra, ai, sim, rr)

Next ==
    \/ \E ev \in Events : Call(ev, FALSE)
    \/ Step0
    \/ Step1
    \/ Step2
    \/ Step3

\* the same calls, made by a caller that may keep finished ones
NextKeeping ==
    \/ \E ev \in Events, keep \in BOOLEAN : Call(ev, keep)
    \/ Step0
    \/ Step1
    \/ Step2
    \/ Step3

(***************************************************************************)
(* compute_event_reaction.  A price table is a sequence of rows            *)
(* [label, symbol, date, close]: label is the row's index label, date the  *)
(* day of January 2024.  Event dates are given as text.                    *)
(***************************************************************************)
Upper(sym) ==
    CASE sym = "aapl" -> "AAPL"
      [] sym = "msft" -> "MSFT"
      [] OTHER -> sym

Digit(d) == <<"0", "1", "2", "3", "4", "5", "6", "7", "8", "9">>[d + 1]

\* Timestamp.strftime('%Y-%m-%d') for a day of January 2024
strftime(day) == "2024-01-" \o Digit(day \div 10) \o Digit(day % 10)

\* the texts of the days of January 2024
DateTexts == [day \in 1..31 |-> strftime(day)]

\* pd.to_datetime on 'YYYY-MM-DD' text: the day of January 2024; -1 stands
\* for the parse error raised on any other text
to_datetime(text) ==
    IF \E day \in 1..31 : DateTexts[day] = text
    THEN CHOOSE day \in 1..31 : DateTexts[day] = text
    ELSE -1

DayStr(days) == Digit(days)

\* DataFrame.sort_values('date'): ascending by date
RECURSIVE sort_values(_)
sort_values(rows) ==
    IF rows = <<>> THEN <<>>
    ELSE LET m == CHOOSE i \in 1..Len(rows) :
                    /\ \A j \in 1..Len(rows) : rows[i].date <= rows[j].date
                    /\ \A j \in 1..(i - 1) : rows[j].date # rows[i].date
         IN  <<rows[m]>> \o sort_values(SubSeq(rows, 1, m - 1) \o SubSeq(rows, m + 1, Len(rows)))

\* Series.pct_change on the window's closes: entry i is close[i]/close[i-1] - 1
\* as the fraction (close[i] - close[i-1]) / close[i-1]; the first entry is NaN
pct_change(rows) ==
    [i \in 1..Len(rows) |->
        IF i = 1 THEN [t |-> "NaN"]
        ELSE [t |-> "num",
              v |-> [num |-> rows[i].close - rows[i - 1].close, den |-> rows[i - 1].close]]]

\* lines 163-164: the window rows within two days of future_date
FutureMatches(window_data, future_date) ==
    SelectSeq(window_data,
              LAMBDA r : r.date >= future_date - 2 /\ r.date <= future_date + 2)

\* the last match taken instead of the first
HorizonEntries_last(window_data, event_row, days) ==
    LET future_date == event_row.date + days
        matches == FutureMatches(window_data, future_date)
        d == DayStr(days)
    IN  IF matches # <<>>
        THEN LET future_row == matches[Len(matches)]
             IN  ((d \o "_day_return") :>
                     [t |-> "num",
                      v |-> [num |-> future_row.close - event_row.close,
                             den |-> event_row.close]])
                 @@ ((d \o "_day_price") :> future_row.close)
                 @@ ((d \o "_day_date") :> strftime(future_row.date))
        ELSE ((d \o "_day_return") :> None)
             @@ ((d \o "_day_note") :>
                    ("No trading data found around " \o strftime(future_date)))

\* lines 158-180: the entries of one horizon
HorizonEntries(window_data, event_row, days) ==
    LET future_date == event_row.date + days
        matches == FutureMatches(window_data, future_date)
        d == DayStr(days)
    IN  IF matches # <<>>
        THEN LET future_row == matches[1]
             IN  ((d \o "_day_return") :>
                     [t |-> "num",
                      v |-> [num |-> future_row.close - event_row.close,
                             den |-> event_row.close]])
                 @@ ((d \o "_day_price") :> future_row.close)
                 @@ ((d \o "_day_date") :> strftime(future_row.date))
        ELSE ((d \o "_day_return") :> None)
             @@ ((d \o "_day_note") :>
                    ("No trading data found around " \o strftime(future_date)))

\* annualized over 365 calendar days
VolatilityBlock_365(window_data, event_idx) ==
    LET vol_start_idx == Max(0, event_idx - 20)
        vol_end_idx == Min(Len(window_data), event_idx + 21)
        vol_data == SubSeq(window_data, vol_start_idx + 1, vol_end_idx)
        daily_return == SubSeq(pct_change(window_data), vol_start_idx + 1, vol_end_idx)
        sample == SelectSeq(daily_return, LAMBDA x : x.t = "num")
    IN  IF Len(vol_data) >= 10
        THEN [daily_volatility |-> [std_of |-> sample, times_sqrt |-> 1],
              annualized_volatility |-> [std_of |-> sample, times_sqrt |-> 365],
              sample_size |-> Len(vol_data),
              period_start |-> strftime(vol_data[1].date),
              period_end |-> strftime(vol_data[Len(vol_data)].date)]
        ELSE [error |-> "Insufficient data for volatility calculation"]

\* lines 184-209: the volatility block; event_idx is the index label idxmax gave
VolatilityBlock(window_data, event_idx) ==
    LET vol_start_idx == Max(0, event_idx - 20)
        vol_end_idx == Min(Len(window_data), event_idx + 21)
        \* iloc[vol_start_idx:vol_end_idx], positions counted from 0
        vol_data == SubSeq(window_data, vol_start_idx + 1, vol_end_idx)
        daily_return == SubSeq(pct_change(window_data), vol_start_idx + 1, vol_end_idx)
        sample == SelectSeq(daily_return, LAMBDA x : x.t = "num")
    IN  IF Len(vol_data) >= 10
        THEN [daily_volatility |-> [std_of |-> sample, times_sqrt |-> 1],
              annualized_volatility |-> [std_of |-> sample, times_sqrt |-> 252],
              sample_size |-> Len(vol_data),
              period_start |-> strftime(vol_data[1].date),
              period_end |-> strftime(vol_data[Len(vol_data)].date)]
        ELSE [error |-> "Insufficient data for volatility calculation"]

\* line 111: the rows of the ticker, symbols compared in upper case
TickerRows(df, ticker) ==
    SelectSeq(df, LAMBDA r : Upper(r.symbol) = Upper(ticker))

\* lines 123-130: the rows dated within the analysis window
WindowRows(ticker_data, event_dt, days_before, days_after) ==
    SelectSeq(ticker_data,
              LAMBDA r : r.date >= event_dt - days_before /\ r.date <= event_dt + days_after)

TooFewRows_one(window_data) == Len(window_data) < 1

\* line 132
TooFewRows(window_data) == Len(window_data) < 2

\* line 139: the positions where window_data['date'] >= event_dt
EventMask(window_data, event_dt) ==
    {i \in 1..Len(window_data) : window_data[i].date >= event_dt}

\* line 141: Series.idxmax gives the index label of the first True
idxmax(window_data, event_mask) ==
    window_data[CHOOSE i \in event_mask : \A j \in event_mask : i <= j].label

\* the row at position event_idx (iloc), none when out of range
loc_by_position(window_data, event_idx) ==
    IF event_idx + 1 \in 1..Len(window_data) THEN <<window_data[event_idx + 1]>> ELSE <<>>

\* line 142: DataFrame.loc selects every row that carries the label
loc(window_data, event_idx) ==
    SelectSeq(window_data, LAMBDA r : r.label = event_idx)

\* an exception leaving the try block of lines 106-211
Raised == [raised |-> "Exception"]

\* lines 106-211: the body of the try block
event_reaction_try(df, ticker, event_date, days_before, days_after) ==
    LET event_dt == to_datetime(event_date)
        ticker_data == sort_values(TickerRows(df, ticker))
        window_data == WindowRows(ticker_data, event_dt, days_before, days_after)
        event_mask == EventMask(window_data, event_dt)
    IN  IF event_dt = -1
        THEN Raised
        ELSE IF Len(ticker_data) = 0
        THEN [error |-> "No data found for ticker"]
        ELSE IF TooFewRows(window_data)
        THEN [error |-> "Insufficient data for analysis"]
        ELSE IF event_mask = {}
        THEN [error |-> "Event date not found in data range"]
        ELSE
          LET event_idx == idxmax(window_data, event_mask)
              located == loc(window_data, event_idx)
          IN  IF Len(located) # 1
              \* .loc gave several rows: strftime on a column raises
              THEN Raised
              ELSE
                LET event_row == located[1]
                IN  [ticker |-> ticker,
                     event_date |-> event_date,
                     event_date_found |-> strftime(event_row.date),
                     event_price |-> event_row.close]
                    @@ HorizonEntries(window_data, event_row, 1)
                    @@ HorizonEntries(window_data, event_row, 3)
                    @@ HorizonEntries(window_data, event_row, 5)
                    @@ ("volatility_20_day" :> VolatilityBlock(window_data, event_idx))

\* the try block with nothing around it to catch what it raises
compute_event_reaction_unguarded(df, ticker, event_date, days_before, days_after) ==
    event_reaction_try(df, ticker, event_date, days_before, days_after)

\* lines 106-214: the try block and the except that turns an exception into
\* a returned failure
compute_event_reaction(df, ticker, event_date, days_before, days_after) ==
    LET outcome == event_reaction_try(df, ticker, event_date, days_before, days_after)
    IN  IF outcome = Raised
        THEN [error |-> "Failed to compute event reaction"]
        ELSE outcome

(***************************************************************************)
(* The price tables and arguments the calculator is run on                 *)
(***************************************************************************)
MaxRows == 5

\* observations: one per (symbol, date); AAPL's are those of Scenario A
Observations ==
    {[symbol |-> "AAPL", date |-> 15, close |-> 150],
     [symbol |-> "AAPL", date |-> 16, close |-> 152],
     [symbol |-> "AAPL", date |-> 17, close |-> 148],
     [symbol |-> "AAPL", date |-> 18, close |-> 151],
     [symbol |-> "AAPL", date |-> 19, close |-> 155],
     [symbol |-> "aapl", date |-> 14, close |-> 149],
     [symbol |-> "MSFT", date |-> 17, close |-> 310]}

\* the index labels of an n-row table: 0..n-1 as load_price_data leaves it,
\* reversed, or one label for every row
IndexLabels(scheme, n, i) ==
    CASE scheme = "range" -> i - 1
      [] scheme = "reversed" -> n - i
      [] scheme = "constant" -> 0

Schemes == {"range", "reversed", "constant"}

PriceTables ==
    UNION {{[i \in 1..n |->
               [label |-> IndexLabels(scheme, n, i), symbol |-> f[i].symbol,
                date |-> f[i].date, close |-> f[i].close]] :
              f \in {g \in [1..n -> Observations] :
                        \A i, j \in 1..n : i # j => g[i] # g[j]},
              scheme \in Schemes} :
           n \in 0..MaxRows}

ReactionTickers == {"AAPL", "msft", "TSLA"}

ReactionDates == {"2024-01-16", "2024-01-17", "2024-01-20", "2024-01-32"}

DefaultDays == 30

Windows == {DefaultDays, 1}

NoArgs == [called |-> FALSE]

NotLoaded == [called |-> FALSE]

InitReactionIdle ==
    /\ price_df = <<>>
    /\ rx_args = NoArgs
    /\ rx_result = NoResult
    /\ load_call = NotLoaded

Init == InitRisk /\ InitReactionIdle

InitReaction ==
    /\ InitRisk
    /\ price_df \in PriceTables
    /\ rx_args = NoArgs
    /\ rx_result = NoResult
    /\ load_call = NotLoaded

\* longer tables, for the volatility block: a run of daily AAPL rows, after
\* lead rows of another symbol that take the first index labels
MaxVolRows == 12

Leads == {0, 2, 21}

FirstDays == {10, 16}

VolClose(day) == 140 + ((day * day) % 11)

VolTable(n, lead, first) ==
    [i \in 1..(lead + n) |->
        IF i <= lead
        THEN [label |-> i - 1, symbol |-> "MSFT", date |-> i, close |-> 300 + i]
        ELSE [label |-> i - 1, symbol |-> "AAPL", date |-> first + (i - lead) - 1,
              close |-> VolClose(first + (i - lead) - 1)]]

VolTables ==
    {VolTable(n, lead, first) : n \in 9..MaxVolRows, lead \in Leads, first \in FirstDays}

InitVolatility ==
    /\ InitRisk
    /\ price_df \in VolTables
    /\ rx_args = NoArgs
    /\ rx_result = NoResult
    /\ load_call = NotLoaded

\* the caller's table converted and sorted in place
ComputeEventReaction_inplace(ticker, event_date, days_before, days_after) ==
    /\ rx_result = NoResult
    /\ rx_args' = [called |-> TRUE, ticker |-> ticker, event_date |-> event_date,
                   days_before |-> days_before, days_after |-> days_after]
    /\ rx_result' = compute_event_reaction(price_df, ticker, event_date,
                                           days_before, days_after)
    /\ price_df' = sort_values(price_df)
    /\ UNCHANGED <<risk_vars, loader_vars>>

\* one call of compute_event_reaction on the table (lines 111, 130: the
\* function works on copies)
ComputeEventReaction(ticker, event_date, days_before, days_after) ==
    /\ rx_result = NoResult
    /\ rx_args' = [called |-> TRUE, ticker |-> ticker, event_date |-> event_date,
                   days_before |-> days_before, days_after |-> days_after]
    /\ rx_result' = compute_event_reaction(price_df, ticker, event_date,
                                           days_before, days_after)
    /\ UNCHANGED <<price_df, risk_vars, loader_vars>>

\* the caller drops the result
Discard ==
    /\ rx_result # NoResult
    /\ rx_args' = NoArgs
    /\ rx_result' = NoResult
    /\ UNCHANGED <<price_df, risk_vars, loader_vars>>

NextReaction ==
    \/ \E ticker \in ReactionTickers, event_date \in ReactionDates, w \in Windows :
          ComputeEventReaction(ticker, event_date, w, w)
    \/ Discard

(***************************************************************************)
(* load_price_data.  DuckDB is asked to create a table, named after the    *)
(* file unless the caller names it, from read_csv_auto(path).  DuckDB      *)
(* parses the statement before it looks for the file; its message for a    *)
(* missing file is one of the two wordings the code tests for.             *)
(***************************************************************************)
CsvPaths ==
    {"data/price_data.csv", "data/nonexistent_file.csv", "data/prices-2024.csv",
     "data/2024.csv", "prices.csv", "data/order.csv", "data/aapl.csv"}

\* os.path.splitext(os.path.basename(path))[0]
Stem(path) ==
    CASE path = "data/price_data.csv" -> "price_data"
      [] path = "data/nonexistent_file.csv" -> "nonexistent_file"
      [] path = "data/prices-2024.csv" -> "prices-2024"
      [] path = "data/2024.csv" -> "2024"
      [] path = "prices.csv" -> "prices"
      [] path = "data/order.csv" -> "order"
      [] path = "data/aapl.csv" -> "aapl"

TableNames == {Absent, "prices", "price data", "market_prices"}

\* the names DuckDB's parser accepts unquoted after CREATE TABLE
ParsesAsTableName(name) ==
    name \in {"price_data", "nonexistent_file", "prices", "aapl", "market_prices"}

NoFilesFound == "IO Error: No files found that match the pattern"

FileDoesNotExist == "IO Error: File does not exist"

SyntaxError == "Parser Error: syntax error at or near"

MissingFileMessages == {NoFilesFound, FileDoesNotExist}

\* line 50: "No files found" in error_msg or "file does not exist" in error_msg.lower()
SaysFileIsMissing(error_msg) == error_msg \in {NoFilesFound, FileDoesNotExist}

\* what the file at the path holds; Absent when the path resolves to no file
FileContents ==
    {Absent,
     <<>>,
     <<[symbol |-> "AAPL", date |-> 17, close |-> 148]>>,
     <<[symbol |-> "AAPL", date |-> 16, close |-> 152],
       [symbol |-> "MSFT", date |-> 17, close |-> 310],
       [symbol |-> "AAPL", date |-> 17, close |-> 148]>>}

\* fetchdf(): the rows of the table under index labels 0..n-1
fetchdf(rows) ==
    [i \in 1..Len(rows) |->
        [label |-> i - 1, symbol |-> rows[i].symbol,
         date |-> rows[i].date, close |-> rows[i].close]]

\* lines 22-46: con.execute raises the message, or the table is fetched
duckdb_load(csv_file_path, table_name, file, missing_message) ==
    LET name == IF table_name = Absent THEN Stem(csv_file_path) ELSE table_name
    IN  IF ~ParsesAsTableName(name) THEN [raises |-> SyntaxError]
        ELSE IF file = Absent THEN [raises |-> missing_message]
        ELSE [returns |-> fetchdf(file)]

\* lines 22-53
load_price_data(csv_file_path, table_name, file, missing_message) ==
    LET attempt == duckdb_load(csv_file_path, table_name, file, missing_message)
    IN  IF "raises" \in DOMAIN attempt
        THEN IF SaysFileIsMissing(attempt.raises)
             THEN [raises |-> "FileNotFoundError",
                   message |-> "CSV file not found: " \o csv_file_path]
             ELSE [raises |-> "Exception",
                   message |-> "Error loading CSV with DuckDB: " \o attempt.raises]
        ELSE attempt

\* one call of load_price_data
LoadPriceData(csv_file_path, table_name, file, missing_message) ==
    /\ load_call' = [called |-> TRUE, csv_file_path |-> csv_file_path,
                     table_name |-> table_name, file |-> file,
                     outcome |-> load_price_data(csv_file_path, table_name, file,
                                                 missing_message)]
    /\ UNCHANGED <<risk_vars, reaction_vars>>

NextLoader ==
    \E csv_file_path \in CsvPaths, table_name \in TableNames, file \in FileContents,
       missing_message \in MissingFileMessages :
        LoadPriceData(csv_file_path, table_name, file, missing_message)

(***************************************************************************)
(* The three collaborator calls issued together and joined before the      *)
(* aggregation: each completes once, in any order.  pc is "step0" while    *)
(* none has completed, then "fork_" followed by one flag each for the      *)
(* classifier (c), the similarity lookup (s) and the price load (p).       *)
(***************************************************************************)
Collaborators == {"c", "s", "p"}

ForkPc(completed) ==
    "fork_" \o (IF "c" \in completed THEN "c" ELSE "-")
            \o (IF "s" \in completed THEN "s" ELSE "-")
            \o (IF "p" \in completed THEN "p" ELSE "-")

\* the collaborators that have completed at position pcv
Completed(pcv) ==
    IF pcv = "step0" THEN {}
    ELSE IF \E c \in SUBSET Collaborators : ForkPc(c) = pcv
    THEN CHOOSE c \in SUBSET Collaborators : ForkPc(c) = pcv
    ELSE Collaborators

Complete(who, body) ==
    /\ who \notin Completed(pc)
    /\ pc' = ForkPc(Completed(pc) \cup {who})
    /\ body

ClassifierCompletes == Complete("c", Classify)

SimilarityCompletes == Complete("s", Retrieve)

PricesComplete == Complete("p", React)

Join ==
    /\ pc = ForkPc(Collaborators)
    /\ pc' = "done"
    /\ Aggregate

NextAnyOrder ==
    \/ \E ev \in Events : Call(ev, FALSE)
    \/ ClassifierCompletes
    \/ SimilarityCompletes
    \/ PricesComplete
    \/ Join

Spec == Init /\ [][Next]_vars

SpecAnyOrder == Init /\ [][NextAnyOrder]_vars

SpecKeeping == Init /\ [][NextKeeping]_vars

SpecReaction == InitReaction /\ [][NextReaction]_vars

SpecVolatility == InitVolatility /\ [][NextReaction]_vars

SpecLoader == Init /\ [][NextLoader]_vars

\* a caller that holds a price table and either scores events or computes
\* reactions on the table
NextCaller ==
    \/ rx_args = NoArgs /\ price_df = <<>> /\ Next
    \/ pc = "idle" /\ NextReaction

SpecCaller == InitReaction /\ [][NextCaller]_vars

(***************************************************************************)
(* Properties of score_event_risk (checked under Spec; those that compare  *)
(* two calls under SpecKeeping)                                            *)
(***************************************************************************)
Done == pc = "done"

Range(seq) == {seq[i] : i \in 1..Len(seq)}

EmptyClassifierAnswer ==
    responses.classifier \in {NotInvoked, [raises |-> FALSE, analysis |-> EmptyDict]}

EmptySimilarityAnswer ==
    responses.similarity \in
        {NotInvoked,
         [status |-> "success", similar_events |-> <<>>, total_retrieved |-> 0]}

EmptyPriceAnswer ==
    responses.price \in
        {NotInvoked, [load |-> "ok", reaction |-> [error |-> "No data found for ticker"]]}

AllEmptyResponses ==
    EmptyClassifierAnswer /\ EmptySimilarityAnswer /\ EmptyPriceAnswer

\* C1: whatever the event and the collaborators' answers (empty and failed
\* ones included) the returned risk_score lies in [0,100], and with all-empty
\* answers the level is Low
C1_ScoreInRange ==
    Done =>
        /\ result.risk_score >= 0
        /\ result.risk_score <= 100
        /\ AllEmptyResponses => result.risk_level = "Low"

\* every collaborator was invoked and answered empty; the title alone scored
C1_Witness ==
    /\ Done
    /\ Len(invoked) = 4
    /\ AllEmptyResponses
    /\ result.risk_score > 20
    /\ result.risk_level = "Low"

FailedClosed == responses.classifier = [raises |-> FALSE, analysis |-> FailClosedAnalysis]

\* C2: when the classifier failed closed (sentiment None) the call still
\* returns a 'success' assessment with level Low, Medium or High and no
\* classifier adjustment
C2_FailClosedStillScored ==
    (Done /\ FailedClosed) =>
        /\ result.status = "success"
        /\ result.risk_level \in {"Low", "Medium", "High"}
        /\ \A i \in 1..Len(risk_assessment.risk_factors) :
              risk_assessment.risk_factors[i].msg \notin
                  {"AI-detected negative sentiment", "AI-detected positive sentiment"}

\* C3: an event with a title but without ticker or date never triggers the
\* price-series load, has price-reaction factor 0, and is answered with
\* status 'success', a score and a level
C3_MissingFieldsStillScored ==
    (Done /\ HasTitle(event) /\ ~HasTickerAndDate(event)) =>
        /\ "load_price_data" \notin Range(invoked)
        /\ analyze_price_reaction_risk(reaction_result) = 0
        /\ result.status = "success"
        /\ "risk_score" \in DOMAIN result
        /\ result.risk_level \in {"Low", "Medium", "High"}

\* the classifier adjustment in hundredths of a point: +0.2, -0.1 or 0
ClassifierAdjustment ==
    LET r == responses.classifier
        sentiment == IF r # NotInvoked /\ ~r.raises
                     THEN Get(r.analysis, "sentiment", Str("")) ELSE Str("")
    IN  IF sentiment.t # "str" THEN 0
        ELSE IF Lower(sentiment.v) = "negative" THEN 20
        ELSE IF Lower(sentiment.v) = "positive" THEN -10
        ELSE 0

FourFactors ==
    analyze_sentiment_risk(event, similar_result)
        + analyze_impact_risk(event, similar_result)
        + analyze_similar_events_risk(risk_assessment)
        + analyze_price_reaction_risk(reaction_result)

\* C4: the final score is clamp(four factors + classifier adjustment, 0, 100)
\* (both sides in hundredths of a point)
C4_ScoreIsFactorsPlusAdjustment ==
    (Done /\ result.status = "success") =>
        result.risk_score * 100
            = Max(0, Min(100 * 100, FourFactors * 100 + ClassifierAdjustment))

\* C5: in a 'success' assessment the level is High iff score >= 70, Medium
\* iff 40 <= score < 70, Low iff score < 40; UNKNOWN comes only with status
\* 'error' and score 0
C5_LevelMatchesScore ==
    Done =>
        /\ result.status = "success" =>
              /\ result.risk_level = "High" <=> result.risk_score >= 70
              /\ result.risk_level = "Medium" <=>
                    (result.risk_score >= 40 /\ result.risk_score < 70)
              /\ result.risk_level = "Low" <=> result.risk_score < 40
        /\ result.risk_level = "UNKNOWN" =>
              (result.status = "error" /\ result.risk_score = 0)

\* a score exactly on the High threshold
C5_Witness ==
    /\ Done
    /\ result.status = "success"
    /\ result.risk_score = 70
    /\ result.risk_level = "High"

HasRecommendations(r) == "recommendations" \in DOMAIN r

ScenarioC == ~HasTitle(event) /\ DOMAIN event \subseteq {"title"}

\* C11 (Scenario C): for an event with an empty title, no ticker and no date
\* no collaborator is invoked, the four factors and the classifier adjustment
\* are 0, the final score is 0 and the level is Low
C11_ScenarioCScoresZero ==
    (Done /\ ScenarioC) =>
        /\ invoked = <<>>
        /\ analyze_sentiment_risk(event, similar_result) = 0
        /\ analyze_impact_risk(event, similar_result) = 0
        /\ analyze_similar_events_risk(risk_assessment) = 0
        /\ analyze_price_reaction_risk(reaction_result) = 0
        /\ ClassifierAdjustment = 0
        /\ result.risk_score = 0
        /\ result.risk_level = "Low"

\* the title keyword points as the scoring rules give them: negative keywords
\* min(15, 5 x count) less positive keywords min(5, 2 x count), not yet
\* floored at 0; high-impact keywords min(10, 3 x count)
TitleSentimentPoints(ev) ==
    LET lt == Lower(Get(ev, "title", ""))
    IN  Min(15, 5 * KeywordCount(negative_keywords, lt))
            - Min(5, 2 * KeywordCount(positive_keywords, lt))

TitleImpactPoints(ev) ==
    Min(10, 3 * KeywordCount(high_impact_keywords, Lower(Get(ev, "title", ""))))

NoSimilarEvents ==
    responses.similarity =
        [status |-> "success", similar_events |-> <<>>, total_retrieved |-> 0]

\* no price data: prices were not asked for, the load raised, or the reaction
\* computation failed
NoPriceData ==
    \/ responses.price = NotInvoked
    \/ responses.price = [load |-> "raise"]
    \/ responses.price.load = "ok" /\ "error" \in DOMAIN responses.price.reaction

\* C12 (Scenario B): for the title "Apple announces major product recall"
\* with no similar events and no price data the sentiment factor is >= 15,
\* the impact factor >= 3, the price-reaction factor 0, and the final score
\* is the title keyword factors plus the classifier adjustment and nothing
\* else (both sides of the last line in hundredths of a point)
C12_ScenarioBKeywordsOnly ==
    (Done /\ Get(event, "title", "") = TitleB /\ NoSimilarEvents /\ NoPriceData) =>
        /\ analyze_sentiment_risk(event, similar_result) >= 15
        /\ analyze_impact_risk(event, similar_result) >= 3
        /\ analyze_price_reaction_risk(reaction_result) = 0
        /\ result.risk_score * 100
              = Max(0, Min(100 * 100,
                           (Max(0, TitleSentimentPoints(event)) + TitleImpactPoints(event)) * 100
                               + ClassifierAdjustment))

\* the points a result's reasoning reports for a factor (0 when not listed)
PointsOf(r, factor) ==
    LET parts == r.reasoning.parts
        at == {i \in 1..Len(parts) : parts[i].factor = factor}
    IN  IF at = {} THEN 0 ELSE parts[CHOOSE i \in at : TRUE].points

\* the similarity lookup of Scenario D: five similar events, every one with
\* sentiment_score < -0.3 and impact_score > 0.7
ScenarioD ==
    /\ responses.similarity # NotInvoked
    /\ responses.similarity.status = "success"
    /\ Len(responses.similarity.similar_events) = 5
    /\ \A i \in 1..5 :
          /\ responses.similarity.similar_events[i].sentiment_score < -30
          /\ responses.similarity.similar_events[i].impact_score > 70

\* C13 (Scenario D): with five similar events, all negative and all high
\* impact, the similar events add exactly 15 to the sentiment factor (5 x 3,
\* before the floor at 0) and exactly 15 to the impact factor (min(15, 5 x 4)),
\* whatever the title
C13_ScenarioDCapsBind ==
    (Done /\ ScenarioD /\ result.status = "success") =>
        /\ PointsOf(result, "Sentiment analysis")
              = Max(0, TitleSentimentPoints(event) + 15)
        /\ PointsOf(result, "Impact analysis") = TitleImpactPoints(event) + 15

\* Scenario D on a title that itself reaches both title caps: 15 + 15 and 10 + 15
C13_Witness ==
    /\ Done
    /\ ScenarioD
    /\ result.status = "success"
    /\ PointsOf(result, "Sentiment analysis") = 30
    /\ PointsOf(result, "Impact analysis") = 25

\* C14: each factor stays inside its own range before the summation:
\* sentiment 0..30, impact 0..25, similar-events pattern 0..20,
\* price reaction 0..25, so that the sum never exceeds 100
C14_FactorsInRange ==
    Done =>
        /\ analyze_sentiment_risk(event, similar_result) \in 0..30
        /\ analyze_impact_risk(event, similar_result) \in 0..25
        /\ analyze_similar_events_risk(risk_assessment) \in 0..20
        /\ analyze_price_reaction_risk(reaction_result) \in 0..25
        /\ FourFactors <= 100

\* all four factors at the top of their ranges, the price factor on a reaction
\* whose uncapped points (15 + 10 + 10) exceed 25
C14_Witness ==
    /\ Done
    /\ analyze_sentiment_risk(event, similar_result) = 30
    /\ analyze_impact_risk(event, similar_result) = 25
    /\ analyze_similar_events_risk(risk_assessment) = 20
    /\ analyze_price_reaction_risk(reaction_result) = 25
    /\ reaction_result = WorstReaction

SimilarityFailed ==
    responses.similarity = [status |-> "error", error |-> "LanceDB query failed"]

PriceFailed == responses.price # NotInvoked /\ NoPriceData

\* a similarity lookup that succeeds and finds nothing
EmptySimilarity ==
    [status |-> "success", similar_events |-> <<>>, total_retrieved |-> 0]

\* a reaction that was computed and carries no signal: no horizon has a
\* return and the volatility is unavailable
NoSignalPrice ==
    [load |-> "ok",
     reaction |->
        [ticker |-> "AAPL", event_date |-> "2024-01-17",
         event_date_found |-> "2024-01-17", event_price |-> 148,
         volatility_20_day |-> [error |-> "Insufficient data for volatility calculation"]]
        @@ ("1_day_return" :> None) @@ ("3_day_return" :> None)
        @@ ("5_day_return" :> None)]

\* C15: a failed collaborator contributes no points: when the similarity
\* lookup failed the similar events add nothing to the sentiment and impact
\* factors, when the price load or the reaction computation failed the
\* price-reaction factor is 0, and in both cases the final score is no higher
\* than with the same collaborator succeeding on an empty (no-signal) answer
C15_FailureAddsNoPoints ==
    (Done /\ result.status = "success") =>
        /\ SimilarityFailed =>
              /\ PointsOf(result, "Sentiment analysis")
                    = Max(0, TitleSentimentPoints(event))
              /\ PointsOf(result, "Impact analysis") = TitleImpactPoints(event)
              /\ result.risk_score <=
                    score_event_risk(event,
                        [responses EXCEPT !.similarity = EmptySimilarity]).risk_score
        /\ PriceFailed =>
              /\ PointsOf(result, "Price reaction analysis") = 0
              /\ result.risk_score <=
                    score_event_risk(event,
                        [responses EXCEPT !.price = NoSignalPrice]).risk_score

AssessmentKeys ==
    {"risk_score", "risk_level", "reasoning", "recommendations", "raw_metrics", "status"}

\* C16: every returned value, on the success path and on the top-level error
\* path alike, has the keys risk_score, risk_level, reasoning,
\* recommendations, raw_metrics and status
C16_FixedKeySet == Done => AssessmentKeys \subseteq DOMAIN result

\* the collaborators in the order the code reaches them
CallOrder ==
    <<"analyze_event", "retrieve_similar_events", "load_price_data",
      "compute_event_reaction">>

RankOf(name) == CHOOSE i \in 1..Len(CallOrder) : CallOrder[i] = name

\* C17: within one call the classifier, the similarity lookup and the price
\* load are each invoked at most once and in that order, none again after
\* failing; classifier and similarity lookup only for a non-empty title, the
\* price load only when ticker and date are both present
C17_OneCallEachInOrder ==
    /\ \A i, j \in 1..Len(invoked) : i < j => RankOf(invoked[i]) < RankOf(invoked[j])
    /\ ("analyze_event" \in Range(invoked) \/ "retrieve_similar_events" \in Range(invoked))
          => HasTitle(event)
    /\ "load_price_data" \in Range(invoked) => HasTickerAndDate(event)

\* a finished call in which the classifier raised, the similarity lookup
\* failed and the price load raised: each was invoked once and not again
C17_Witness ==
    /\ Done
    /\ responses.classifier = [raises |-> TRUE]
    /\ SimilarityFailed
    /\ responses.price = [load |-> "raise"]
    /\ invoked = <<"analyze_event", "retrieve_similar_events", "load_price_data">>

\* C18 (checked under SpecAnyOrder): the three collaborator calls are
\* independent; whatever the order in which they complete before the
\* aggregation, the assessment is the one the code's own order (classifier,
\* similarity, prices) gives for the same event and the same answers
C18_AnyOrderSameAssessment ==
    Done => result = score_event_risk(event, responses)

\* the calls completed in the reverse of the code's order, each leaving a
\* risk factor, and the call was scored
C18_Witness ==
    /\ Done
    /\ invoked = <<"load_price_data", "compute_event_reaction",
                   "retrieve_similar_events", "analyze_event">>
    /\ result.status = "success"
    /\ Len(risk_assessment.risk_factors) >= 3
    /\ risk_assessment.risk_factors[1].msg \notin
          {"Found similar negative events", "Found similar high-impact events",
           "Could not retrieve similar events"}

(***************************************************************************)
(* Properties of compute_event_reaction (checked under SpecReaction)       *)
(***************************************************************************)
\* a finished call whose event date parsed
ValidCall == rx_args.called /\ to_datetime(rx_args.event_date) # -1

\* positions of the table's rows that belong to the ticker
OfTicker == {i \in 1..Len(price_df) : Upper(price_df[i].symbol) = Upper(rx_args.ticker)}

\* ... and are dated inside [event_date - days_before, event_date + days_after]
InWindow ==
    {i \in OfTicker :
        /\ price_df[i].date >= to_datetime(rx_args.event_date) - rx_args.days_before
        /\ price_df[i].date <= to_datetime(rx_args.event_date) + rx_args.days_after}

\* ... and are dated on or after the event date
OnOrAfterEvent == {i \in InWindow : price_df[i].date >= to_datetime(rx_args.event_date)}

Succeeded == ValidCall /\ "error" \notin DOMAIN rx_result

\* C8 as stated: with fewer than 2 observations of the ticker in the window
\* (the ticker having no observation at all included) the call returns the
\* InsufficientData failure
C8_InsufficientDataAlways ==
    (ValidCall /\ Cardinality(InWindow) < 2)
        => rx_result = [error |-> "Insufficient data for analysis"]

\* C8 amended: with fewer than 2 observations of the ticker in the window the
\* call returns a bare failure, never a partial result: NoDataForTicker when
\* the table has no row of the ticker, InsufficientData otherwise
C8_FewObservationsFail ==
    (ValidCall /\ Cardinality(InWindow) < 2)
        => rx_result = [error |-> IF OfTicker = {} THEN "No data found for ticker"
                                  ELSE "Insufficient data for analysis"]

\* the ticker has rows, but only one of them inside the window
C8_Witness ==
    /\ ValidCall
    /\ Cardinality(OfTicker) >= 3
    /\ Cardinality(InWindow) = 1
    /\ rx_result = [error |-> "Insufficient data for analysis"]

\* C9: on success event_price is the close of the earliest-dated observation
\* of the ticker dated on or after the event date inside the window, and
\* event_date_found is that observation's date
C9_EventPriceIsFirstOnOrAfter ==
    Succeeded =>
        /\ OnOrAfterEvent # {}
        /\ \E i \in OnOrAfterEvent :
              /\ \A j \in OnOrAfterEvent : price_df[i].date <= price_df[j].date
              /\ rx_result["event_price"] = price_df[i].close
              /\ to_datetime(rx_result["event_date_found"]) = price_df[i].date

\* success on a table that is not in date order, holds another symbol, is not
\* labelled 0..n-1, and has no row on the event date itself
C9_Witness ==
    /\ Succeeded
    /\ \E i, j \in OfTicker : i < j /\ price_df[i].date > price_df[j].date
    /\ OfTicker # 1..Len(price_df)
    /\ \E i \in 1..Len(price_df) : price_df[i].label # i - 1
    /\ \A i \in OfTicker : price_df[i].date # to_datetime(rx_args.event_date)
    /\ to_datetime(rx_result["event_date_found"]) > to_datetime(rx_args.event_date)

ScenarioATable ==
    <<[label |-> 0, symbol |-> "AAPL", date |-> 15, close |-> 150],
      [label |-> 1, symbol |-> "AAPL", date |-> 16, close |-> 152],
      [label |-> 2, symbol |-> "AAPL", date |-> 17, close |-> 148],
      [label |-> 3, symbol |-> "AAPL", date |-> 18, close |-> 151],
      [label |-> 4, symbol |-> "AAPL", date |-> 19, close |-> 155]>>

ScenarioA ==
    /\ price_df = ScenarioATable
    /\ rx_args = [called |-> TRUE, ticker |-> "AAPL", event_date |-> "2024-01-17",
                  days_before |-> DefaultDays, days_after |-> DefaultDays]

\* C10: Scenario A gives event_price 148 and the 1-day return (151-148)/148;
\* in general, when the ticker has observations on the day before, the day of
\* and the day after the effective event date, the 1-day return is measured
\* against the observation dated one day after the effective event date
C10_OneDayReturnUsesNextDay ==
    /\ ScenarioA =>
          /\ rx_result["event_price"] = 148
          /\ rx_result["1_day_return"] = [t |-> "num", v |-> [num |-> 151 - 148, den |-> 148]]
    /\ (/\ Succeeded
        /\ \A d \in {-1, 0, 1} :
              \E i \in InWindow :
                  price_df[i].date = to_datetime(rx_result["event_date_found"]) + d)
          => to_datetime(rx_result["1_day_date"])
                = to_datetime(rx_result["event_date_found"]) + 1

NoDataForTicker == [error |-> "No data found for ticker"]

InsufficientData == [error |-> "Insufficient data for analysis"]

EventDateNotFound == [error |-> "Event date not found in data range"]

\* C19: compute_event_reaction never raises to its caller: what it returns
\* is either a failure carrying only an error or a success with event_price
\* and no top-level error; for an event date that is a date the failure is
\* NoDataForTicker exactly when no row matches the ticker (case-insensitive),
\* else InsufficientData exactly when fewer than 2 rows are in the window,
\* else EventDateNotFound exactly when no window row is dated on or after
\* the event date
C19_FailuresAreReturned ==
    rx_args.called =>
        /\ \/ DOMAIN rx_result = {"error"}
           \/ "event_price" \in DOMAIN rx_result /\ "error" \notin DOMAIN rx_result
        /\ ValidCall =>
              /\ rx_result = NoDataForTicker <=> OfTicker = {}
              /\ rx_result = InsufficientData <=>
                    (OfTicker # {} /\ Cardinality(InWindow) < 2)
              /\ rx_result = EventDateNotFound <=>
                    (Cardinality(InWindow) >= 2 /\ OnOrAfterEvent = {})
              /\ Succeeded => (Cardinality(InWindow) >= 2 /\ OnOrAfterEvent # {})

\* an exception inside the try block (the event date is no date, on a table
\* that holds rows of the ticker) came back as a returned failure
C19_Witness ==
    /\ rx_args.called
    /\ ~ValidCall
    /\ OfTicker # {}
    /\ rx_result = [error |-> "Failed to compute event reaction"]

VolatilityOf(r) == r["volatility_20_day"]

VolatilityAvailable ==
    Succeeded /\ "annualized_volatility" \in DOMAIN VolatilityOf(rx_result)

\* C20 (checked under SpecVolatility): whenever the volatility block is
\* available, annualized_volatility is daily_volatility x sqrt(252),
\* daily_volatility being the standard deviation itself, and sample_size is
\* the number of rows of the sub-window (the window rows dated from
\* period_start to period_end), which is at least 10
C20_AnnualizedIsDailyTimesSqrt252 ==
    VolatilityAvailable =>
        LET v == VolatilityOf(rx_result)
        IN  /\ v.daily_volatility.times_sqrt = 1
            /\ v.annualized_volatility =
                  [std_of |-> v.daily_volatility.std_of,
                   times_sqrt |-> 252 * v.daily_volatility.times_sqrt]
            /\ v.sample_size >= 10
            /\ v.sample_size =
                  Cardinality({i \in InWindow :
                                  /\ price_df[i].date >= to_datetime(v.period_start)
                                  /\ price_df[i].date <= to_datetime(v.period_end)})

\* volatility available on a sub-window that is not the whole window, in a
\* table that also holds another symbol
C20_Witness ==
    /\ VolatilityAvailable
    /\ VolatilityOf(rx_result).sample_size < Cardinality(InWindow)
    /\ OfTicker # 1..Len(price_df)
    /\ Len(VolatilityOf(rx_result).daily_volatility.std_of)
          = VolatilityOf(rx_result).sample_size

\* the dates of the window rows, and the one at position k (from 0) of the
\* date-sorted window
WindowDates == {price_df[i].date : i \in InWindow}

DateAt(k) == CHOOSE d \in WindowDates : Cardinality({e \in WindowDates : e < d}) = k

\* p: the position of the effective event row in the date-sorted window
EventPosition ==
    Cardinality({e \in WindowDates : e < to_datetime(rx_result["event_date_found"])})

SubWindowFirst == Max(0, EventPosition - 20)

SubWindowLast == Min(Cardinality(WindowDates) - 1, EventPosition + 20)

\* C22 (checked under SpecVolatility): the volatility sub-window is the rows
\* at positions max(0, p-20) .. min(n-1, p+20) of the date-sorted window, p
\* being the position of the effective event row and n the window's length;
\* volatility is available iff that sub-window has at least 10 rows, and the
\* sub-window contains the event row, also when the table holds other
\* tickers' rows
C22_SubWindowAroundEventPosition ==
    Succeeded =>
        LET v == VolatilityOf(rx_result)
            size == SubWindowLast - SubWindowFirst + 1
        IN  /\ "annualized_volatility" \in DOMAIN v <=> size >= 10
            /\ "annualized_volatility" \in DOMAIN v =>
                  /\ v.sample_size = size
                  /\ to_datetime(v.period_start) = DateAt(SubWindowFirst)
                  /\ to_datetime(v.period_end) = DateAt(SubWindowLast)
                  /\ to_datetime(v.period_start)
                        <= to_datetime(rx_result["event_date_found"])
                  /\ to_datetime(rx_result["event_date_found"])
                        <= to_datetime(v.period_end)

Horizons == {1, 3, 5}

EffectiveDate == to_datetime(rx_result["event_date_found"])

\* the window rows dated within two days of effective date + h
HorizonCandidates(h) ==
    {i \in InWindow :
        /\ price_df[i].date >= EffectiveDate + h - 2
        /\ price_df[i].date <= EffectiveDate + h + 2}

C28_HorizonsLookForward ==
    Succeeded =>
        \A h \in Horizons :
            rx_result[DayStr(h) \o "_day_return"] # None
                => to_datetime(rx_result[DayStr(h) \o "_day_date"]) > EffectiveDate

\* the ticker's own rows as a table of their own, labelled from 0
OwnRows(df, ticker) ==
    LET rows == TickerRows(df, ticker)
    IN  [i \in 1..Len(rows) |-> [rows[i] EXCEPT !.label = i - 1]]

\* C29 (checked under SpecVolatility): the result for a ticker depends only
\* on that ticker's observations: it is the result obtained on the table
\* with the other symbols' rows removed
C29_OtherSymbolsDoNotMatter ==
    rx_args.called =>
        rx_result = compute_event_reaction(OwnRows(price_df, rx_args.ticker),
                                           rx_args.ticker, rx_args.event_date,
                                           rx_args.days_before, rx_args.days_after)

(***************************************************************************)
(* Properties of the four factors and of the reasoning (checked under Spec)*)
(***************************************************************************)
Scored == Done /\ result.status = "success"

\* the reaction result the price analysis answered with
AnsweredReaction == responses.price.reaction

HorizonKeys == <<"1_day_return", "3_day_return", "5_day_return">>

\* the horizons whose return is available, and their returns (basis points)
AvailableHorizons == {k \in 1..3 : AnsweredReaction[HorizonKeys[k]] # None}

ReturnAt(k) == IF k \in AvailableHorizons THEN AnsweredReaction[HorizonKeys[k]].v ELSE 0

\* A: 15 if the average return is below -5%, 8 if it is in [-5%, -2%)
AveragePoints ==
    LET n == Cardinality(AvailableHorizons)
        total == ReturnAt(1) + ReturnAt(2) + ReturnAt(3)
    IN  IF n = 0 THEN 0
        ELSE IF total < (-500) * n THEN 15
        ELSE IF total >= (-500) * n /\ total < (-200) * n THEN 8
        ELSE 0

\* W: 10 if the lowest available return is below -10%
WorstPoints ==
    IF \E k \in AvailableHorizons : ReturnAt(k) < -1000 THEN 10 ELSE 0

\* V: 10 if annualized volatility exceeds 0.5, 5 if it is in (0.3, 0.5]
VolatilityPoints ==
    LET v == AnsweredReaction["volatility_20_day"]
    IN  IF "annualized_volatility" \notin DOMAIN v THEN 0
        ELSE IF v["annualized_volatility"] > 50 THEN 10
        ELSE IF v["annualized_volatility"] > 30 /\ v["annualized_volatility"] <= 50 THEN 5
        ELSE 0

\* C24: the price-reaction factor is 0 when the reaction failed; otherwise
\* it is min(25, A + W + V) over the available horizon returns only
C24_PriceReactionFactor ==
    Scored =>
        PointsOf(result, "Price reaction analysis") =
            IF NoPriceData THEN 0
            ELSE Min(25, AveragePoints + WorstPoints + VolatilityPoints)

\* one horizon available, A + W + V = 35 capped at 25
C24_Witness ==
    /\ Scored
    /\ ~NoPriceData
    /\ Cardinality(AvailableHorizons) = 1
    /\ AveragePoints + WorstPoints + VolatilityPoints = 35
    /\ PointsOf(result, "Price reaction analysis") = 25

\* the negative similar events of the similarity answer (scores in hundredths)
NegativeAnswered ==
    IF responses.similarity = NotInvoked
       \/ "similar_events" \notin DOMAIN responses.similarity
    THEN 0
    ELSE Cardinality({i \in 1..Len(responses.similarity.similar_events) :
                        responses.similarity.similar_events[i].sentiment_score < -30})

\* C25: the sentiment factor is max(0, min(15, 5 x negative keywords)
\* - min(5, 2 x positive keywords) + min(15, 3 x negative similar events)):
\* the positive reduction can offset similar-event points, and the factor is
\* never negative
C25_SentimentFactor ==
    Scored =>
        PointsOf(result, "Sentiment analysis") =
            Max(0, TitleSentimentPoints(event) + Min(15, 3 * NegativeAnswered))

\* a title with positive keywords only and five negative similar events:
\* -5 + 15 = 10
C25_Witness ==
    /\ Scored
    /\ TitleSentimentPoints(event) = -5
    /\ NegativeAnswered = 5
    /\ PointsOf(result, "Sentiment analysis") = 10

\* the four factors of the finished call, in the order of the reasoning
FactorPoints ==
    <<[factor |-> "Sentiment analysis",
       points |-> analyze_sentiment_risk(event, similar_result)],
      [factor |-> "Impact analysis",
       points |-> analyze_impact_risk(event, similar_result)],
      [factor |-> "Similar events analysis",
       points |-> analyze_similar_events_risk(risk_assessment)],
      [factor |-> "Price reaction analysis",
       points |-> analyze_price_reaction_risk(reaction_result)]>>

\* C26: the reasoning lists exactly the factors with non-zero points, each
\* with its points, in the order sentiment, impact, similar events, price
\* reaction; the score and level it quotes are the returned ones
C26_ReasoningListsNonZeroFactors ==
    Scored =>
        /\ result.reasoning.parts = SelectSeq(FactorPoints, LAMBDA f : f.points # 0)
        /\ result.reasoning.score = result.risk_score
        /\ result.reasoning.level = result.risk_level

\* a reasoning of two parts that skips the zero sentiment factor
C26_Witness ==
    /\ Scored
    /\ FactorPoints[1].points = 0
    /\ FactorPoints[4].points = 0
    /\ Len(result.reasoning.parts) = 2
    /\ result.reasoning.parts[1].factor = "Impact analysis"
    /\ result.reasoning.parts[2].factor = "Similar events analysis"

\* the classifier's judgment of the finished call
Judgment ==
    IF responses.classifier = NotInvoked \/ responses.classifier.raises
       \/ "sentiment" \notin DOMAIN responses.classifier.analysis
       \/ responses.classifier.analysis.sentiment.t # "str"
    THEN "unknown"
    ELSE Lower(responses.classifier.analysis.sentiment.v)

\* the same call with the classifier judging the event neutral
NeutralScore ==
    score_event_risk(event,
        [responses EXCEPT !.classifier.analysis.sentiment = Str("Neutral")]).risk_score

\* C30: a 'positive' judgment never yields a higher final score than a
\* neutral one on the same inputs, and a 'negative' judgment never a lower
C30_JudgmentMovesScoreTheRightWay ==
    Done =>
        /\ Judgment = "positive" => result.risk_score <= NeutralScore
        /\ Judgment = "negative" => result.risk_score >= NeutralScore

(***************************************************************************)
(* The inputs of both functions (checked under SpecCaller)                 *)
(***************************************************************************)
InCall == pc \notin {"idle", "done"}

\* C27: score_event_risk and compute_event_reaction leave their inputs
\* unchanged: no step of a call changes the caller's event mapping, the
\* similarity result once it is returned (the function's own reference still
\* denotes the value returned), or the price table (rows, columns, order)
C27_InputsLeftUnchanged ==
    [][/\ price_df' = price_df
       /\ InCall => event' = event
       /\ (InCall /\ responses.similarity # NotInvoked)
             => /\ responses'.similarity = responses.similarity
                /\ similar_result' = responses.similarity]_vars

\* a finished computation on a table that is not in date order
C27_Witness ==
    /\ Succeeded
    /\ price_df # sort_values(price_df)
    /\ event = EmptyDict

(***************************************************************************)
(* Properties of load_price_data (checked under SpecLoader)                *)
(***************************************************************************)
\* C21: whenever the path resolves to no file, load_price_data fails with
\* FileNotFoundError: never with a generic exception, never returning a table
C21_MissingFileIsNotFound ==
    (load_call.called /\ load_call.file = Absent) =>
        /\ "raises" \in DOMAIN load_call.outcome
        /\ load_call.outcome.raises = "FileNotFoundError"

====
